---- MODULE Spec2Model ----
(***************************************************************************)
(* Model of the retrieval-augmented conversation pipeline:                 *)
(*   RAG/RAG_Pipeline.py   RAG_Pipeline (session history, stream, model    *)
(*                         swap)                                           *)
(*   RAG/RAG_Indexing.py   RAG_Indexing.index_pdf (ingestion, temp files)  *)
(*   RAG/VectorStore/ChromaStore.py   ChromaStore.add_documents            *)
(*   Engines/RAG_Chatbot.py           RAG_Chatbot (forwarding facade)      *)
(*   streamlit_app.py      ChatApp.run, one run of the script per event    *)
(*   streamlitApp.py       chatbot_interface, one run per event            *)
(*   Student/StudentDatabase.py       StudentDatabase (one connection)     *)
(*                                                                         *)
(* Text is a sequence of tokens, so string concatenation is \o and the     *)
(* empty string is << >>.  A history object (ChatMessageHistory) lives in  *)
(* a heap `objs`; the dict self.history maps a session id to the slot of  *)
(* its object (0 = key absent), so that a handle held by a turn in flight  *)
(* can outlive the dict entry.  An object nothing refers to any more is    *)
(* reclaimed, as reference counting does, and its slot is reused.          *)
(***************************************************************************)
EXTENDS Integers, Sequences, FiniteSets, TLC

\* ------------------------------------------------------------ bounds
MaxTurns  == 2     \* stream() calls issued in one behaviour
MaxChunks == 2     \* chunks the model delivers in one turn
MaxIngests == 2    \* index_pdf calls issued in one behaviour
MaxSessionIds == 2 \* entries of st.session_state.session_ids
MaxRows == 2       \* rows ever inserted into the students table
MaxPrompts == 1    \* questions typed into the chat input of a page

\* ------------------------------------------------------------ value sets
Sessions  == {"s1", "s2"}

\* Questions are opaque texts; the n-th stream() call of a behaviour asks
\* question n, so that the order of the calls shows in the history.
Questions == 1..MaxTurns
Models    == {"openai/gpt-oss-120b", "gemma2-9b-it"}

\* A chunk of the model's stream is the empty string or one token; the k-th
\* non-empty chunk of a stream is the token k, so that the order of the
\* chunks shows in every concatenation.
Tokens == 1..MaxChunks
ChunksAfter(out) == {<< >>, <<Len(out) + 1>>}

\* Exception classes a collaborator can raise; all derive from Exception.
ExceptionClasses == {"Exception", "ValueError", "OSError"}

DefaultModel == "openai/gpt-oss-120b"

VARIABLES
    history,        \* self.history: session id -> object id, 0 when absent
    objs,           \* heap: slot -> messages of the ChatMessageHistory in it
    llm,            \* self.llm.model_name
    ragChainLlm,    \* model_name of the llm object composed into self.ragChain
    chainStreams,   \* hasattr(self.chain, "stream")
    turn,           \* per session: the generator returned by stream()
    nTurns,         \* number of stream() calls so far
    calls,          \* per session: completed turns since its last clear
    index,          \* records of the Vector Index, in insertion order
    disk,           \* names of the caller's files that exist on disk
    tmpFiles,       \* temporary files that exist on disk, by number
    ingest,         \* outcome of the last index_pdf call
    nIngests,       \* number of index_pdf calls so far
    config,         \* the "vector_store" value of the RAG configuration
    pipeline,       \* the RAG_Pipeline object: how far its construction
                    \* got and the vector store its RAG_Indexing holds
    app,            \* the front-end script the browser session runs
    widgets,        \* values the widgets of the page hold between runs
    session_state,  \* st.session_state
    processed,      \* file ids handed to process_pdf, in call order
    db              \* the StudentDatabase object and its students table

chatVars   == <<history, objs, llm, ragChainLlm, chainStreams, turn,
                nTurns, calls>>
ingestVars == <<index, disk, tmpFiles, ingest, nIngests>>
startVars  == <<config, pipeline>>
appVars    == <<app, widgets, session_state, processed>>
vars       == <<history, objs, llm, ragChainLlm, chainStreams, turn,
                nTurns, calls, index, disk, tmpFiles, ingest, nIngests,
                config, pipeline, app, widgets, session_state, processed, db>>

\* ------------------------------------------------------------ messages
HumanMessage(text) == [role |-> "Human", text |-> text]
AIMessage(text)    == [role |-> "Assistant", text |-> text]

\* "".join(fragments)
RECURSIVE Concat(_)
Concat(frags) ==
    IF frags = << >> THEN << >> ELSE Head(frags) \o Concat(Tail(frags))

\* What a history read of session s returns, without creating the entry.
Messages(s) == IF history[s] = 0 THEN << >> ELSE objs[history[s]]

\* f"Error retrieving context: {e}" and f"Error generating response: {e}".
\* Each message is one token of its own, which no model produces: tokens of
\* a model are positive, so a fragment can be compared with either message.
ErrRetrieving == <<-1>>
ErrGenerating == <<-2>>

\* ------------------------------------------------------------ turns
InFlight == {"Idle", "ContextReady", "Generating"}
Terminal == {"RetrievalFailed", "GenerationFailed", "Completed", "Raised"}

NoTurn ==
    [pc |-> "none", question |-> 0, hist |-> 0,
     out |-> << >>, yielded |-> << >>, nchunks |-> 0, usedModel |-> ""]

\* ------------------------------------------------------------ heap
\* A live object is referred to by the dict or by the run of a turn that is
\* generating; there are never more than two per session.
Slots == 1..(2 * Cardinality(Sessions))

Pinned(h, t) ==
    {h[s] : s \in Sessions}
        \cup {t[s].hist : s \in {x \in Sessions : t[x].pc = "Generating"}}

\* The heap o once the objects that dict h and turns t no longer refer to
\* are reclaimed.
Collect(h, t, o) ==
    [i \in Slots |-> IF i \in Pinned(h, t) THEN o[i] ELSE << >>]

\* ChatMessageHistory(): the slot of the object constructed for session s.
\* Addresses are arbitrary: session number n uses the free one of the slots
\* 2n-1 and 2n.
SessionNo(s) == IF s = "s1" THEN 1 ELSE 2

NewObj(s) ==
    IF (2 * SessionNo(s) - 1) \notin Pinned(history, turn)
    THEN 2 * SessionNo(s) - 1 ELSE 2 * SessionNo(s)

\* ------------------------------------------------------------ RAG_Pipeline
\* Variant: a new object is constructed on every call, the membership test
\* of line 81 left out.
get_session_history_always_new(s) ==
    [history |-> [history EXCEPT ![s] = NewObj(s)], handle |-> NewObj(s)]

\* get_session_history(session_id): the dict after the call and the handle
\* it returns.  A missing key gets a fresh, empty object.
get_session_history(s) ==
    IF history[s] = 0
    THEN [history |-> [history EXCEPT ![s] = NewObj(s)], handle |-> NewObj(s)]
    ELSE [history |-> history, handle |-> history[s]]

\* Variant: a handler that names one class, `except ValueError`.
StreamCatchesValueError(e) == e = "ValueError"

\* `except Exception as e` (both handlers of stream): the classes it catches.
StreamCatches(e) == e \in ExceptionClasses

\* Variant: every chunk is yielded, empty or not.
StreamYieldsAll(yielded, chunk) == Append(yielded, chunk)

\* `if chunk: yield chunk`: the fragments yielded so far after one more chunk.
StreamYields(yielded, chunk) ==
    IF chunk # << >> THEN Append(yielded, chunk) ELSE yielded

\* Variant: the question is not recorded, only the answer.
ExitHistoryWriteAnswerOnly(heap, handle, question, output) ==
    [heap EXCEPT ![handle] = Append(@, AIMessage(output))]

\* The listener that RunnableWithMessageHistory runs when the chain ends
\* without error: the question and the whole output are appended to the
\* history object the run loaded when it started.
ExitHistoryWrite(heap, handle, question, output) ==
    [heap EXCEPT ![handle] = @ \o <<HumanMessage(<<question>>), AIMessage(output)>>]

\* Variant: the question of a turn that fails is recorded all the same.
FailWriteQuestion(heap, handle, question, output) ==
    [heap EXCEPT ![handle] = Append(@, HumanMessage(<<question>>))]

\* The heap after a run of the chain that ended in an exception, lines
\* 132-133: the listener does not run and stream writes nothing itself.
FailWrite(heap, handle, question, output) == heap

\* The model that answers a turn: the llm object composed into self.ragChain
\* by __init__; the chain built by change_llm_type wraps that same ragChain.
ChainModel == ragChainLlm

\* self.llm after change_llm_type(model_name).
SwitchedLlm(model_name) == model_name

\* Variant: the switch starts from an empty history dict.
HistoryReset == [s \in Sessions |-> 0]

\* self.history after change_llm_type: the method does not touch it.
HistoryAfterSwitch == history

\* Completed turns of s, extended by the turn t that just completed with
\* handle h, unless a clear of s unlinked h from the dict while t generated.
Record(s, t, h) ==
    IF history[s] # h THEN calls
    ELSE [calls EXCEPT ![s] = Append(@, [question |-> t.question,
                                          frags |-> t.yielded])]

\* stream(session_id, user_input) is called: a generator is created, none of
\* its body has run.
Stream(s, q) ==
    /\ nTurns < MaxTurns
    /\ q = nTurns + 1
    /\ turn[s].pc \notin InFlight
    /\ turn' = [turn EXCEPT ![s] =
                  [NoTurn EXCEPT !.pc = "Idle", !.question = q]]
    /\ nTurns' = nTurns + 1
    /\ UNCHANGED <<history, objs, llm, ragChainLlm, chainStreams, calls>>

\* Variant: the handler yields the message and falls through to the
\* generation block instead of returning.
RetrievalErrorFallsThrough(t) ==
    [t EXCEPT !.pc = "ContextReady", !.yielded = <<ErrRetrieving>>]

\* Variant: the handler yields the message and goes back to retrieving.
RetrievalErrorRetries(t) ==
    [t EXCEPT !.pc = "Idle", !.yielded = <<ErrRetrieving>>]

\* The first handler of stream, lines 113-115: the message is yielded and
\* the generator returns.
RetrievalError(t) ==
    [t EXCEPT !.pc = "RetrievalFailed", !.yielded = <<ErrRetrieving>>]

\* Variant: the second handler yields nothing.
GenerationErrorSilent(yielded) == yielded

\* The second handler of stream, lines 132-133: the message is yielded after
\* whatever the generator yielded before the exception.
GenerationError(yielded) == Append(yielded, ErrGenerating)

\* self.rag_indexing.get_retriever().invoke(user_input), lines 111-115.
RetrieveContext(s, outcome) ==
    /\ turn[s].pc = "Idle"
    /\ turn' = [turn EXCEPT ![s] =
                  IF outcome = "ok"
                  THEN [@ EXCEPT !.pc = "ContextReady"]
                  ELSE IF StreamCatches(outcome)
                  THEN RetrievalError(@)
                  ELSE [@ EXCEPT !.pc = "Raised"]]
    /\ UNCHANGED <<history, objs, llm, ragChainLlm, chainStreams, nTurns, calls>>

\* self.chain.stream(...) starts: the run loads the session's history through
\* get_session_history and binds the model of the chain.
EnterHistory(s) ==
    /\ turn[s].pc = "ContextReady"
    /\ chainStreams
    /\ LET g == get_session_history(s) IN
         /\ history' = g.history
         /\ turn' = [turn EXCEPT ![s] =
                       [@ EXCEPT !.pc = "Generating", !.hist = g.handle,
                                 !.usedModel = ChainModel]]
    /\ UNCHANGED <<objs, llm, ragChainLlm, chainStreams, nTurns, calls>>

\* One chunk arrives from the chain, lines 119-124.
ModelChunk(s, chunk) ==
    /\ turn[s].pc = "Generating"
    /\ turn[s].nchunks < MaxChunks
    /\ chunk \in ChunksAfter(turn[s].out)
    /\ turn' = [turn EXCEPT ![s] =
                  [@ EXCEPT !.out = @ \o chunk, !.nchunks = @ + 1,
                            !.yielded = StreamYields(@, chunk)]]
    /\ UNCHANGED <<history, objs, llm, ragChainLlm, chainStreams, nTurns, calls>>

\* The chain raises while streaming, before or after some chunks, lines
\* 132-133.  The run ends in error, so its history listener does not run.
ModelFail(s, e) ==
    /\ turn[s].pc = "Generating"
    /\ turn' = [turn EXCEPT ![s] =
                  IF StreamCatches(e)
                  THEN [@ EXCEPT !.pc = "GenerationFailed", !.hist = 0,
                                 !.yielded = GenerationError(@)]
                  ELSE [@ EXCEPT !.pc = "Raised", !.hist = 0]]
    /\ objs' = Collect(history, turn',
                       FailWrite(objs, turn[s].hist, turn[s].question,
                                 turn[s].out))
    /\ UNCHANGED <<history, llm, ragChainLlm, chainStreams, nTurns, calls>>

\* The chain's stream ends after at least one chunk: the run's listener
\* writes the exchange and the generator returns.
ExitHistory(s) ==
    /\ turn[s].pc = "Generating"
    /\ turn[s].nchunks >= 1
    /\ turn' = [turn EXCEPT ![s] = [@ EXCEPT !.pc = "Completed", !.hist = 0]]
    /\ objs' = Collect(history, turn',
                       ExitHistoryWrite(objs, turn[s].hist, turn[s].question,
                                        turn[s].out))
    /\ calls' = Record(s, turn[s], turn[s].hist)
    /\ UNCHANGED <<history, llm, ragChainLlm, chainStreams, nTurns>>

\* Every full response self.chain.invoke can return.
Responses == {<< >>} \cup {<<k>> : k \in Tokens}

\* Variant: the fallback applies the `if chunk` filter of the streaming branch.
FallbackYieldsNonEmpty(response) ==
    IF response # << >> THEN <<response>> ELSE << >>

\* Lines 127-131: `yield response`, the full response as one fragment,
\* whatever it is.
FallbackYields(response) == <<response>>

\* Fallback of lines 125-131, taken when the chain has no stream attribute:
\* self.chain.invoke(...) loads the history, then returns the full response
\* (and the listener writes the exchange) or raises.
Invoke(s, outcome, response) ==
    /\ turn[s].pc = "ContextReady"
    /\ ~chainStreams
    /\ LET g == get_session_history(s)
           t == [turn[s] EXCEPT !.usedModel = ChainModel]
       IN
         /\ history' = g.history
         /\ IF outcome = "ok"
            THEN LET done == [t EXCEPT !.pc = "Completed", !.out = response,
                                       !.nchunks = 1,
                                       !.yielded = FallbackYields(response)] IN
                   /\ objs' = ExitHistoryWrite(objs, g.handle, t.question, response)
                   /\ turn' = [turn EXCEPT ![s] = done]
                   /\ calls' = [calls EXCEPT ![s] =
                                  Append(@, [question |-> done.question,
                                             frags |-> done.yielded])]
            ELSE /\ objs' = FailWrite(objs, g.handle, t.question, << >>)
                 /\ turn' = [turn EXCEPT ![s] =
                               IF StreamCatches(outcome)
                               THEN [t EXCEPT !.pc = "GenerationFailed",
                                              !.yielded = GenerationError(@)]
                               ELSE [t EXCEPT !.pc = "Raised"]]
                 /\ calls' = calls
    /\ UNCHANGED <<llm, ragChainLlm, chainStreams, nTurns>>

\* Variant: `del self.history[session_id]` without the membership test, which
\* raises KeyError for a key the dict does not hold.
clear_session_history_unguarded(h, s) ==
    [history |-> [h EXCEPT ![s] = 0], raised |-> h[s] = 0]

\* Variant: the whole dict is emptied, `self.history.clear()`.
clear_session_history_all(h, s) ==
    [history |-> [x \in Sessions |-> 0], raised |-> FALSE]

\* clear_session_history(session_id) on the dict h, lines 155-156: the dict
\* after the call and whether the call raised.
\*     if session_id in self.history: del self.history[session_id]
clear_session_history(h, s) ==
    [history |-> IF h[s] # 0 THEN [h EXCEPT ![s] = 0] ELSE h,
     raised  |-> FALSE]

\* clear_session_history(session_id) is called (RAG_Chatbot.clearHistory
\* forwards to it); the object the entry held is reclaimed unless a run in
\* flight still holds it.
ClearSessionHistory(s) ==
    /\ history' = clear_session_history(history, s).history
    /\ calls' = [calls EXCEPT ![s] = << >>]
    /\ objs' = Collect(history', turn, objs)
    /\ UNCHANGED <<llm, ragChainLlm, chainStreams, turn, nTurns>>

\* Variant: the messages are returned newest first.
getHistoryReversed(s) ==
    LET m == objs[get_session_history(s).handle] IN
      [i \in 1..Len(m) |-> m[Len(m) + 1 - i]]

\* What RAG_Chatbot.getHistory(session_id) returns, line 77: the messages
\* of the object that get_session_history hands out, in list order.
getHistory(s) == objs[get_session_history(s).handle]

\* RAG_Chatbot.getHistory(session_id) is called: get_session_history
\* creates the entry when the session has none.
GetHistory(s) ==
    /\ history' = get_session_history(s).history
    /\ UNCHANGED <<objs, llm, ragChainLlm, chainStreams, turn, nTurns, calls>>

\* change_llm_type(model_name), lines 181-187.
ChangeLlmType(model_name) ==
    /\ llm' = SwitchedLlm(model_name)
    /\ history' = HistoryAfterSwitch
    /\ UNCHANGED <<objs, ragChainLlm, chainStreams, turn, nTurns, calls>>

\* ------------------------------------------------------------ RAG_Indexing
\* Files of the caller: a PDF with two chunks of text, one whose name starts
\* with "tmp", and a zero-byte file.  "missing.pdf" names no file.
UserFiles == {"report.pdf", "tmp_notes.pdf", "empty.pdf"}
PathNames == UserFiles \cup {"missing.pdf"}

\* What a document holds: "garbage" is zero-byte or not a PDF, "blank" is a
\* PDF without text, "one" and "two" are PDFs with that many chunks of text.
Docs == {"garbage", "blank", "one", "two"}

\* The arguments index_pdf is called with: an upload handle, a path, raw
\* bytes, or a value of any other type.
Inputs ==
    {[kind |-> "upload", name |-> "report.pdf", doc |-> d] : d \in Docs}
        \cup {[kind |-> "path", name |-> n, doc |-> "none"] : n \in PathNames}
        \cup {[kind |-> "bytes", name |-> "", doc |-> d] : d \in Docs}
        \cup {[kind |-> "other", name |-> "", doc |-> "none"]}

\* Where a collaborator fails during one call: creating the temporary file,
\* reading the handle or writing the bytes, loading, splitting, inserting.
Faults == {"none", "create", "write", "load", "split", "add"}

\* Values of temp_file_path.
NonePath    == [tag |-> "none", tmp |-> 0, name |-> ""]
TmpPath(n)  == [tag |-> "tmp", tmp |-> n, name |-> ""]
UserPath(p) == [tag |-> "user", tmp |-> 0, name |-> p]

\* tempfile.NamedTemporaryFile picks a name no existing file has.
NewTmp == CHOOSE n \in 1..(Cardinality(tmpFiles) + 1) :
              n \notin tmpFiles /\ \A k \in 1..(n - 1) : k \in tmpFiles

\* The document behind a path.
DocAt(name) ==
    IF name = "report.pdf" THEN "two"
    ELSE IF name = "tmp_notes.pdf" THEN "one"
    ELSE "garbage"

DocOf(input) == IF input.kind = "path" THEN DocAt(input.name) ELSE input.doc

\* Lines 58-70: temp_file_path, the temporary files the call created, and the
\* exception raised, if any.  With delete=False the file exists from the
\* moment NamedTemporaryFile returns; temp_file_path is assigned only after
\* the write.
Materialize(input, fault) ==
    IF input.kind \in {"upload", "bytes"}
    THEN IF fault = "create"
         THEN [path |-> NonePath, created |-> {}, exc |-> "OSError"]
         ELSE IF fault = "write"
         THEN [path |-> NonePath, created |-> {NewTmp}, exc |-> "OSError"]
         ELSE [path |-> TmpPath(NewTmp), created |-> {NewTmp}, exc |-> "none"]
    ELSE IF input.kind = "path"
    THEN [path |-> UserPath(input.name), created |-> {}, exc |-> "none"]
    ELSE [path |-> NonePath, created |-> {}, exc |-> "ValueError"]

\* Lines 72-73: PyPDFLoader(temp_file_path).load() raises on a path that
\* names no file and on a file that is empty or not a PDF.
LoadExc(input, path, fault) ==
    IF path.tag = "user" /\ path.name \notin disk THEN "ValueError"
    ELSE IF DocOf(input) = "garbage" THEN "Exception"
    ELSE IF fault = "load" THEN "Exception"
    ELSE "none"

\* Lines 82-87: the chunks the splitter cuts the loaded document into.
Segments(doc) ==
    IF doc = "one" THEN <<"c1">>
    ELSE IF doc = "two" THEN <<"c1", "c2">>
    ELSE << >>

\* Lines 82-86: the splitter index_pdf constructs, whatever self.config
\* holds: SemanticChunker(embeddings, "gradient", 1).  No chunk size and no
\* overlap is passed to it.
SplitterUsed == "semantic"

\* Characters in a chunk of text: "c1" is a passage of one long sentence,
\* "c2" a short one.  The semantic splitter cuts between sentences only.
Chars(text) == IF text = "c1" THEN 650 ELSE 120

\* Offset in the document at which chunk i of texts begins: chunks of the
\* semantic splitter follow one another without overlap.
RECURSIVE ChunkStart(_, _)
ChunkStart(texts, i) ==
    IF i <= 1 THEN 0
    ELSE ChunkStart(texts, i - 1) + Chars(texts[i - 1].text)

\* Variant: the basename of temp_file_path is recorded as it is, the
\* original name of an upload never substituted.
SourceFileBasename(input, path) ==
    IF path.tag = "tmp" THEN "tmp-generated.pdf" ELSE path.name

\* Lines 75-80: the name recorded as source_file.
SourceFile(input, path) ==
    IF path.tag = "tmp"
    THEN IF input.kind = "upload" THEN input.name ELSE "tmp-generated.pdf"
    ELSE path.name

\* Lines 94-96.
Tag(texts, filename) ==
    [i \in 1..Len(texts) |->
        [text |-> texts[i], source_file |-> filename, document_type |-> "pdf"]]

\* Variant: the chunks are inserted one call each, and the last call raises.
InsertedOneByOne(texts, fault) ==
    IF fault = "add" THEN SubSeq(texts, 1, Len(texts) - 1) ELSE texts

\* Line 98 and ChromaStore.add_documents: the records one add_documents call
\* leaves in the index; a call that raises inserts none.
Inserted(texts, fault) == IF fault = "add" THEN << >> ELSE texts

\* Variant: the test of line 89 left out, so that an empty list goes on to
\* add_documents.
NeverShortCircuits(texts) == FALSE

\* `if not texts:`, line 89: the call warns and returns.
ShortCircuits(texts) == texts = << >>

\* The try block, lines 55-98: its exception, temp_file_path, the files it
\* created, the tagged chunks, whether it warned, what it inserted, how
\* many chunks the splitter returned (-1: not reached) and how many times
\* add_documents was called.
TryBody(input, fault) ==
    LET m == Materialize(input, fault)
        stop(e) == [exc |-> e, path |-> m.path, created |-> m.created,
                    chunks |-> << >>, warned |-> FALSE, added |-> << >>,
                    segments |-> -1, addCalls |-> 0]
    IN
      IF m.exc # "none" THEN stop(m.exc)
      ELSE IF LoadExc(input, m.path, fault) # "none"
      THEN stop(LoadExc(input, m.path, fault))
      ELSE IF fault = "split" THEN stop("Exception")
      ELSE LET texts == Segments(DocOf(input)) IN
        IF ShortCircuits(texts)
        THEN [stop("none") EXCEPT !.warned = TRUE, !.segments = Len(texts)]
        ELSE LET tagged == Tag(texts, SourceFile(input, m.path)) IN
          [stop(IF fault = "add" THEN "Exception" ELSE "none")
              EXCEPT !.chunks = tagged, !.added = Inserted(tagged, fault),
                     !.segments = Len(texts), !.addCalls = 1]

\* `except Exception as e`, line 99: the classes the handler catches.
IndexCatches(e) == e \in ExceptionClasses

\* Variant: os.remove is called with no handler around it.
CleanupCatchesNothing(e) == FALSE

\* `except Exception as cleanup_err`, line 108: the classes it catches.
CleanupCatches(e) == e \in ExceptionClasses

\* Variant: the finally block does not compare temp_file_path with pdf_path.
ShouldRemoveAnyPath(input, path) == path.tag # "none"

\* Line 105: the condition under which the finally block removes the file.
ShouldRemove(input, path) ==
    /\ path.tag # "none"
    /\ ~(input.kind = "path" /\ path = UserPath(input.name))

\* Lines 104-109: the files on disk after the finally block, and the
\* exception os.remove raised, if any.
Cleanup(input, path, files, tmps, removeFails) ==
    IF ShouldRemove(input, path)
           /\ (path.tag = "tmp" => path.tmp \in tmps)
           /\ (path.tag = "user" => path.name \in files)
    THEN IF removeFails
         THEN [disk |-> files, tmpFiles |-> tmps, exc |-> "OSError"]
         ELSE [disk |-> files \ {path.name}, tmpFiles |-> tmps \ {path.tmp},
               exc |-> "none"]
    ELSE [disk |-> files, tmpFiles |-> tmps, exc |-> "none"]

\* What index_pdf returns: no path of the function returns a value.
ReturnNone  == [kind |-> "None", count |-> 0]
ReturnOf(error, chunks) == ReturnNone

NoIngest ==
    [called |-> FALSE, kind |-> "", error |-> "none", warned |-> FALSE,
     cleanupFailed |-> FALSE, raised |-> FALSE, ret |-> ReturnNone,
     chunks |-> << >>, created |-> {}, segments |-> -1, addCalls |-> 0]

\* index_pdf(pdf_path), lines 55-110, from call to return.
IndexPdf(input, fault, removeFails) ==
    /\ nIngests < MaxIngests
    /\ LET b == TryBody(input, fault)
           c == Cleanup(input, b.path, disk, tmpFiles \cup b.created, removeFails)
       IN
         /\ index' = index \o b.added
         /\ disk' = c.disk
         /\ tmpFiles' = c.tmpFiles
         /\ ingest' = [called |-> TRUE, kind |-> input.kind, error |-> b.exc,
                       warned |-> b.warned,
                       cleanupFailed |-> (c.exc # "none"),
                       raised |-> \/ (b.exc # "none" /\ ~IndexCatches(b.exc))
                                  \/ (c.exc # "none" /\ ~CleanupCatches(c.exc)),
                       ret |-> ReturnOf(b.exc, b.chunks),
                       chunks |-> b.chunks, created |-> b.created,
                       segments |-> b.segments, addCalls |-> b.addCalls]
    /\ nIngests' = nIngests + 1

\* ------------------------------------------------------------ construction
\* Values of the "vector_store" key of the configuration: the supported
\* backend, two the factory does not know, and the key left out.
ConfigValues == {"Chroma", "FAISS", "Pinecone", "absent"}

\* config.get("vector_store", "Chroma"), line 22.
VectorStoreType(cfg) == IF cfg = "absent" THEN "Chroma" ELSE cfg

\* available_vector_stores, line 26.
AvailableVectorStores == {"Chroma"}

\* Variant: the factory does not validate and hands out a store of whatever
\* type the configuration names.
create_vector_store_unchecked(cfg) ==
    [exc |-> "none", store |-> VectorStoreType(cfg)]

\* VectorStoreFactory.create_vector_store(), lines 20-42: the exception it
\* raises and the store it returns.
create_vector_store(cfg) ==
    IF VectorStoreType(cfg) \notin AvailableVectorStores
    THEN [exc |-> "ValueError", store |-> "none"]
    ELSE IF VectorStoreType(cfg) = "Chroma"
    THEN [exc |-> "none", store |-> "Chroma"]
    ELSE [exc |-> "ValueError", store |-> "none"]

\* No RAG_Pipeline object yet, and the one a completed __init__ leaves.
Unbuilt == [state |-> "unbuilt", vector_store |-> "none"]
Built   == [state |-> "ready", vector_store |-> "Chroma"]

\* RAG_Pipeline() is called: __init__ (line 38) runs RAG_Indexing.__init__,
\* which runs the factory (line 37); an exception of the factory propagates
\* out of both constructors and no object results.
Construct ==
    /\ pipeline.state = "unbuilt"
    /\ LET v == create_vector_store(config) IN
         pipeline' = IF v.exc # "none"
                     THEN [state |-> v.exc, vector_store |-> "none"]
                     ELSE [state |-> "ready", vector_store |-> v.store]
    /\ UNCHANGED <<chatVars, ingestVars, config, appVars, db>>

\* ------------------------------------------------------------ front-ends
\* One run of a Streamlit script, from its first line to its last, is one
\* step; the event is the interaction of the user that triggered the run.
\* Widgets other than buttons and the chat input hold their value from one
\* run to the next.
Apps == {"streamlit_app", "streamlitApp"}

\* Options of the model selectbox (two of the four of each page).
ModelOptions(a) ==
    IF a = "streamlit_app" THEN {"openai/gpt-oss-120b", "gemma2-9b-it"}
    ELSE {"openai/gpt-oss-20b", "gemma2-9b-it"}

\* index=0: the option selected when the page opens.
FirstOption(a) ==
    IF a = "streamlit_app" THEN "openai/gpt-oss-120b" ELSE "openai/gpt-oss-20b"

EngineTypes == {"Legacy Chatbot", "RAG Chatbot"}

\* file_id of the file the user puts into the uploader, and what
\* st.file_uploader returns for it.
UploadIds == {"f1"}
UploadedFile(f) ==
    [kind |-> "upload", name |-> "report.pdf",
     doc |-> IF f = "f1" THEN "two" ELSE "one"]

\* uploaded_file.read(), streamlitApp.py line 440.  Every run gets a new
\* UploadedFile positioned at its start.
FileBytes(f) == [kind |-> "bytes", name |-> "", doc |-> UploadedFile(f).doc]

\* Faults of index_pdf that a run of a page is exposed to: none.
AppFaults == {"none"}

\* Text typed into a text input: a sequence of characters, of which the
\* blank and two words are told apart.
Blank == " "
Texts == {<< >>, <<Blank>>, <<"s1">>, <<Blank, "s1">>, <<"s2">>}

RECURSIVE lstrip(_)
lstrip(t) == IF t # << >> /\ Head(t) = Blank THEN lstrip(Tail(t)) ELSE t

RECURSIVE rstrip(_)
rstrip(t) ==
    IF t # << >> /\ t[Len(t)] = Blank
    THEN rstrip(SubSeq(t, 1, Len(t) - 1)) ELSE t

\* str.strip()
strip(t) == rstrip(lstrip(t))

\* `x in list`
Contains(list, x) == \E i \in 1..Len(list) : list[i] = x

\* list.remove(x): the first occurrence goes.
RemoveFirst(list, x) ==
    LET k == CHOOSE i \in 1..Len(list) :
                 list[i] = x /\ \A j \in 1..(i - 1) : list[j] # x
    IN SubSeq(list, 1, k - 1) \o SubSeq(list, k + 1, Len(list))

\* "Add Session ID", streamlitApp.py lines 358-366: the list after a click
\* with new_session_id in the text input.
AddSessionId(ids, new_session_id) ==
    IF strip(new_session_id) # << >> /\ ~Contains(ids, new_session_id)
    THEN Append(ids, strip(new_session_id))
    ELSE ids

\* The session id a stripped, non-empty text names.
Sid(text) == text[1]

\* f"Thread {len(thread_ids) + 1}": "s1" stands for "Default Thread", "s2"
\* for "Thread 2".
ThreadId(n) == IF n = 1 THEN "s1" ELSE "s2"

\* The chatbot object of st.session_state: the fields of its RAG_Pipeline
\* (or the history dict of a LegacyChatbot).
CurrentChatbot ==
    [history |-> history, objs |-> objs, llm |-> llm, ragChainLlm |-> ragChainLlm]

\* RAG_Chatbot(model_name): a new RAG_Pipeline with an empty history dict
\* and a chain composed over the new llm.
NewChatbot(model_name) ==
    [history |-> [s \in Sessions |-> 0], objs |-> [i \in Slots |-> << >>],
     llm |-> model_name, ragChainLlm |-> model_name]

\* LegacyChatbot(): an empty history dict, no model.
NewLegacyChatbot == [NewChatbot(llm) EXCEPT !.ragChainLlm = ragChainLlm]

\* get_session_history(session_id) on chatbot b, no turn being in flight.
SessionHistoryOf(b, s) ==
    IF b.history[s] = 0
    THEN [b EXCEPT !.history[s] = 2 * SessionNo(s) - 1]
    ELSE b

\* st.write_stream(chatbot.answer(session_id, prompt)): the generator is
\* consumed to its end within the run.
Answered(b, s, question, outcome) ==
    IF outcome = "retrieval" THEN b
    ELSE LET g == SessionHistoryOf(b, s) IN
           IF outcome = "generation" THEN g
           ELSE [g EXCEPT !.objs = ExitHistoryWrite(g.objs, g.history[s],
                                                    question, <<1>>)]

\* chatbot.clearHistory(session_id)
Cleared(b, s) ==
    LET h == clear_session_history(b.history, s).history IN
      [b EXCEPT !.history = h,
                !.objs = [i \in Slots |->
                            IF i \in {h[x] : x \in Sessions}
                            THEN b.objs[i] ELSE << >>]]

NoWidgets(a) ==
    [model |-> FirstOption(a), key |-> "", upload |-> "none",
     engine |-> "Legacy Chatbot", session |-> << >>]

\* st.session_state once the `not in st.session_state` defaults are in.
NoState ==
    [chatbot |-> "none", chatbot_key |-> << >>, uploaded_files |-> {},
     thread_ids |-> <<"s1">>, current |-> <<"s1">>, session_ids |-> << >>]

Keys == {"", "gsk"}
TurnOutcomes == {"ok", "retrieval", "generation"}

ChatAppEvents ==
    {[w |-> "rerun", v |-> << >>], [w |-> "create", v |-> << >>]}
        \cup {[w |-> "model", v |-> <<m>>] : m \in ModelOptions("streamlit_app")}
        \cup {[w |-> "key", v |-> <<k>>] : k \in Keys}
        \cup {[w |-> "thread", v |-> <<s>>] : s \in Sessions}
        \cup {[w |-> "upload", v |-> <<f>>] : f \in UploadIds \cup {"none"}}
        \cup {[w |-> "prompt", v |-> <<o>>] : o \in TurnOutcomes}

\* The widget values a run sees after event e.
Seen(e) ==
    [widgets EXCEPT !.model = IF e.w = "model" THEN e.v[1] ELSE @,
                    !.key = IF e.w = "key" THEN e.v[1] ELSE @,
                    !.upload = IF e.w = "upload" THEN e.v[1] ELSE @,
                    !.engine = IF e.w = "engine" THEN e.v[1] ELSE @,
                    !.session = IF e.w = "select" THEN e.v ELSE @]

\* streamlit_app.py, ChatApp.run: display_sidebar (lines 32-78), then
\* display_chat_interface (lines 106-110) if a chatbot exists.
ChatAppRun(e) ==
    /\ app = "streamlit_app"
    /\ e.w = "thread" => Contains(session_state.thread_ids, e.v[1])
    /\ e.w = "create" => Len(session_state.thread_ids) < Cardinality(Sessions)
    /\ e.w = "prompt" => session_state.chatbot # "none" /\ nTurns < MaxPrompts
    /\ LET w == Seen(e)
           fresh == /\ w.key # ""
                    /\ session_state.chatbot = "none" \/ llm # w.model
           has == fresh \/ session_state.chatbot # "none"
           b0 == IF fresh THEN NewChatbot(w.model) ELSE CurrentChatbot
           threads == IF e.w = "create"
                      THEN Append(session_state.thread_ids,
                                  ThreadId(Len(session_state.thread_ids) + 1))
                      ELSE session_state.thread_ids
           cur == IF e.w = "create" THEN threads[Len(threads)]
                  ELSE IF e.w = "thread" THEN e.v[1]
                  ELSE session_state.current[1]
           ingests == /\ w.upload # "none"
                      /\ has
                      /\ w.upload \notin session_state.uploaded_files
           b1 == IF has THEN SessionHistoryOf(b0, cur) ELSE b0
           asked == has /\ e.w = "prompt"
           b2 == IF asked THEN Answered(b1, cur, nTurns + 1, e.v[1]) ELSE b1
       IN
         /\ widgets' = w
         /\ session_state' =
               [session_state EXCEPT
                   !.chatbot = IF has THEN "RAG" ELSE "none",
                   !.thread_ids = threads,
                   !.current = <<cur>>,
                   !.uploaded_files = IF ingests THEN @ \cup {w.upload} ELSE @]
         /\ history' = b2.history
         /\ objs' = b2.objs
         /\ llm' = b2.llm
         /\ ragChainLlm' = b2.ragChainLlm
         /\ nTurns' = IF asked THEN nTurns + 1 ELSE nTurns
         /\ IF ingests
            THEN /\ \E fault \in AppFaults :
                       IndexPdf(UploadedFile(w.upload), fault, FALSE)
                 /\ processed' = Append(processed, w.upload)
            ELSE UNCHANGED <<ingestVars, processed>>
    /\ UNCHANGED <<app, chainStreams, turn, calls, startVars, db>>

InterfaceEvents ==
    {[w |-> "rerun", v |-> << >>], [w |-> "clear", v |-> << >>]}
        \cup {[w |-> "engine", v |-> <<g>>] : g \in EngineTypes}
        \cup {[w |-> "add", v |-> t] : t \in Texts}
        \cup {[w |-> "select", v |-> t] : t \in Texts}
        \cup {[w |-> "remove", v |-> t] : t \in Texts}
        \cup {[w |-> "model", v |-> <<m>>] : m \in ModelOptions("streamlitApp")}
        \cup {[w |-> "key", v |-> <<k>>] : k \in Keys}
        \cup {[w |-> "upload", v |-> <<f>>] : f \in UploadIds \cup {"none"}}
        \cup {[w |-> "prompt", v |-> <<o>>] : o \in TurnOutcomes}

\* The widget of event e was on the page the last run left.
Shown(e) ==
    LET listed == session_state.session_ids # << >>
        rag == widgets.engine = "RAG Chatbot"
        ended == listed /\ (rag => widgets.key # "")
    IN
      /\ e.w = "add" => Len(session_state.session_ids) < MaxSessionIds
      /\ e.w \in {"select", "remove"} => Contains(session_state.session_ids, e.v)
      /\ e.w \in {"key", "model"} => listed /\ rag
      /\ e.w = "upload" => ended /\ rag
      /\ e.w \in {"prompt", "clear"} => ended /\ session_state.chatbot # "none"
      /\ e.w = "prompt" => nTurns < MaxPrompts /\ (~rag => e.v[1] = "ok")

\* streamlitApp.py, chatbot_interface, lines 338-483.
ChatbotInterface(e) ==
    /\ app = "streamlitApp"
    /\ Shown(e)
    /\ LET w == Seen(e)
           ids1 == IF e.w = "add"
                   THEN AddSessionId(session_state.session_ids, e.v)
                   ELSE session_state.session_ids
           \* lines 369-373: without a session id the run ends here
           listed == ids1 # << >>
           session_id == IF ~listed THEN << >>
                         ELSE IF Contains(ids1, w.session) THEN w.session
                         ELSE ids1[1]
           \* lines 376-382: the removal ends the run with st.rerun()
           removing == e.w = "remove"
           ids2 == IF removing THEN RemoveFirst(ids1, e.v) ELSE ids1
           rag == w.engine = "RAG Chatbot"
           \* lines 419-421: without an API key the run ends here
           reached == listed /\ ~removing /\ ~(rag /\ w.key = "")
           chatbot_key == <<w.engine, IF rag THEN w.model ELSE "">>
           fresh == reached /\ session_state.chatbot_key # chatbot_key
           b0 == IF ~fresh THEN CurrentChatbot
                 ELSE IF rag THEN NewChatbot(w.model) ELSE NewLegacyChatbot
           ingests == reached /\ rag /\ w.upload # "none"
           b1 == IF reached /\ rag THEN SessionHistoryOf(b0, Sid(session_id))
                 ELSE b0
           asked == reached /\ e.w = "prompt"
           b2 == IF asked
                 THEN Answered(b1, Sid(session_id), nTurns + 1, e.v[1])
                 ELSE b1
           b3 == IF reached /\ e.w = "clear"
                 THEN Cleared(b2, Sid(session_id)) ELSE b2
       IN
         /\ widgets' = [w EXCEPT !.session = session_id]
         /\ session_state' =
               [session_state EXCEPT
                   !.session_ids = ids2,
                   !.current = IF listed /\ ~removing THEN session_id ELSE @,
                   !.chatbot_key = IF fresh THEN chatbot_key ELSE @,
                   !.chatbot = IF ~fresh THEN @
                               ELSE IF rag THEN "RAG" ELSE "Legacy"]
         /\ history' = b3.history
         /\ objs' = b3.objs
         /\ llm' = b3.llm
         /\ ragChainLlm' = b3.ragChainLlm
         /\ nTurns' = IF asked THEN nTurns + 1 ELSE nTurns
         /\ IF ingests
            THEN /\ \E fault \in AppFaults :
                       IndexPdf(FileBytes(w.upload), fault, FALSE)
                 /\ processed' = Append(processed, w.upload)
            ELSE UNCHANGED <<ingestVars, processed>>
    /\ UNCHANGED <<app, chainStreams, turn, calls, startVars, db>>

\* ------------------------------------------------------------ StudentDatabase
\* Student objects handed to insertStudent, and a value that is none.
Students ==
    {[kind |-> "Student", name |-> n, age |-> a, grade |-> "A"] :
        n \in {"", "ann", "bob"}, a \in {-1, 0, 7}}
        \cup {[kind |-> "other", name |-> "", age |-> 0, grade |-> ""]}

\* Where sqlite3 fails during one call: in sqlite3.connect, or in a statement.
DbFaults == {"none", "connect", "execute"}

StudentIds == 1..MaxRows

\* An optional argument: << >> is None, <<v>> the value v.
NewNames == {<< >>, <<"zed">>}
NewAges  == {<< >>, <<8>>}

Returned(kind, ids) == [kind |-> kind, ids |-> ids]

\* `if self.connection is None: self.connect()`: the exception, if any.
ConnectExc(d, fault) ==
    IF d.connection = "None" /\ fault = "connect" THEN "sqlite3.Error" ELSE "none"

\* self.connection once sqlite3.connect returned.
connect(d) == [d EXCEPT !.connection = "open"]

\* disconnect(), lines 16-19.
disconnect(d) == [d EXCEPT !.connection = "None"]

\* create_table(), lines 21-35: no handler, an error leaves the method.
create_table(d, fault) ==
    IF ConnectExc(d, fault) # "none"
    THEN [d EXCEPT !.result = Returned("raised sqlite3.Error", {})]
    ELSE IF fault = "execute"
    THEN [connect(d) EXCEPT !.result = Returned("raised sqlite3.Error", {})]
    ELSE [disconnect(connect(d)) EXCEPT !.result = Returned("None", {})]

\* Lines 40-47: the exception the checks of insertStudent raise.
Validate(student) ==
    IF student.kind # "Student" THEN "TypeError"
    ELSE IF student.name = "" \/ student.age = 0 \/ student.grade = ""
    THEN "ValueError"
    ELSE IF student.age <= 0 THEN "ValueError"
    ELSE "none"

\* insertStudent(student), lines 37-59.
insertStudent(d, student, fault) ==
    IF ConnectExc(d, fault) # "none"
    THEN [d EXCEPT !.result = Returned("raised sqlite3.Error", {})]
    ELSE IF Validate(student) # "none"
    THEN [connect(d) EXCEPT !.result = Returned(Validate(student), {})]
    ELSE IF fault = "execute"
    THEN [connect(d) EXCEPT !.result = Returned("False", {})]
    ELSE [disconnect(connect(d)) EXCEPT
             !.rows = @ \cup {[id |-> d.lastId + 1, name |-> student.name,
                               age |-> student.age, grade |-> student.grade]},
             !.lastId = @ + 1,
             !.result = Returned("True", {d.lastId + 1})]

\* The row after `UPDATE students SET ... WHERE id = ?`.
Updated(row, name, age) ==
    [row EXCEPT !.name = IF name = << >> THEN @ ELSE name[1],
                !.age = IF age = << >> THEN @ ELSE age[1]]

\* updateStudent(studentId, name, age, grade), lines 61-89.  With no column
\* to set the statement is "UPDATE students SET WHERE id = ?", which
\* sqlite3 rejects.
updateStudent(d, studentId, name, age, fault) ==
    IF ConnectExc(d, fault) # "none"
    THEN [d EXCEPT !.result = Returned("raised sqlite3.Error", {})]
    ELSE IF fault = "execute" \/ (name = << >> /\ age = << >>)
    THEN [connect(d) EXCEPT !.result = Returned("False", {})]
    ELSE [disconnect(connect(d)) EXCEPT
             !.rows = {IF r.id = studentId THEN Updated(r, name, age) ELSE r :
                          r \in @},
             !.result = Returned("True", {})]

\* deleteStudent(studentId), lines 91-103.
deleteStudent(d, studentId, fault) ==
    IF ConnectExc(d, fault) # "none"
    THEN [d EXCEPT !.result = Returned("raised sqlite3.Error", {})]
    ELSE IF fault = "execute"
    THEN [connect(d) EXCEPT !.result = Returned("False", {})]
    ELSE [disconnect(connect(d)) EXCEPT
             !.rows = {r \in @ : r.id # studentId},
             !.result = Returned("True", {})]

\* A read: getStudent (lines 105-121), search_students (lines 123-146) and
\* fetch_all_students (lines 148-170) differ in the rows they select and in
\* the value they return when sqlite3 fails.
Select(d, ids, fault, onError) ==
    IF ConnectExc(d, fault) # "none"
    THEN [d EXCEPT !.result = Returned("raised sqlite3.Error", {})]
    ELSE IF fault = "execute"
    THEN [connect(d) EXCEPT !.result = Returned(onError, {})]
    ELSE [disconnect(connect(d)) EXCEPT
             !.result = IF ids = {} THEN Returned(onError, {})
                        ELSE Returned("rows", ids)]

getStudent(d, studentId, fault) ==
    Select(d, {r.id : r \in {x \in d.rows : x.id = studentId}}, fault, "None")

\* name LIKE %term% OR grade LIKE %term%, a term being a whole name, a whole
\* grade or the empty string.
search_students(d, search_term, fault) ==
    Select(d, {r.id : r \in {x \in d.rows : \/ search_term = ""
                                           \/ x.name = search_term
                                           \/ x.grade = search_term}},
           fault, "[]")

fetch_all_students(d, fault) ==
    Select(d, {r.id : r \in d.rows}, fault, "[]")

\* StudentDatabase(), lines 8-11, with create_table having succeeded.
NewDatabase ==
    [connection |-> "None", rows |-> {}, lastId |-> 0,
     result |-> Returned("None", {})]

CreateTable(fault) ==
    /\ db' = create_table(db, fault)
    /\ UNCHANGED <<chatVars, ingestVars, startVars, appVars>>

InsertStudent(student, fault) ==
    /\ db.lastId < MaxRows
    /\ db' = insertStudent(db, student, fault)
    /\ UNCHANGED <<chatVars, ingestVars, startVars, appVars>>

UpdateStudent(studentId, name, age, fault) ==
    /\ db' = updateStudent(db, studentId, name, age, fault)
    /\ UNCHANGED <<chatVars, ingestVars, startVars, appVars>>

DeleteStudent(studentId, fault) ==
    /\ db' = deleteStudent(db, studentId, fault)
    /\ UNCHANGED <<chatVars, ingestVars, startVars, appVars>>

GetStudent(studentId, fault) ==
    /\ db' = getStudent(db, studentId, fault)
    /\ UNCHANGED <<chatVars, ingestVars, startVars, appVars>>

SearchStudents(search_term, fault) ==
    /\ db' = search_students(db, search_term, fault)
    /\ UNCHANGED <<chatVars, ingestVars, startVars, appVars>>

FetchAllStudents(fault) ==
    /\ db' = fetch_all_students(db, fault)
    /\ UNCHANGED <<chatVars, ingestVars, startVars, appVars>>

\* ------------------------------------------------------------ specification
\* RAG_Pipeline.__init__, lines 35-56.
InitChat ==
    /\ history = [s \in Sessions |-> 0]
    /\ objs = [i \in Slots |-> << >>]
    /\ llm = DefaultModel
    /\ ragChainLlm = DefaultModel
    /\ chainStreams \in BOOLEAN
    /\ turn = [s \in Sessions |-> NoTurn]
    /\ nTurns = 0
    /\ calls = [s \in Sessions |-> << >>]

InitIngest ==
    /\ index = << >>
    /\ disk = UserFiles
    /\ tmpFiles = {}
    /\ ingest = NoIngest
    /\ nIngests = 0

\* A pipeline whose construction succeeded, under the default configuration.
InitBuilt ==
    /\ config = "Chroma"
    /\ pipeline = Built

\* No page is open.
InitNoApp ==
    /\ app = "none"
    /\ widgets = NoWidgets("none")
    /\ session_state = NoState
    /\ processed = << >>

InitDb == db = NewDatabase

Init == InitChat /\ InitIngest /\ InitBuilt /\ InitNoApp /\ InitDb

Next ==
    \/ \E s \in Sessions, q \in Questions : Stream(s, q) /\ UNCHANGED <<ingestVars, startVars, appVars, db>>
    \/ \E s \in Sessions, o \in {"ok"} \cup ExceptionClasses :
          RetrieveContext(s, o) /\ UNCHANGED <<ingestVars, startVars, appVars, db>>
    \/ \E s \in Sessions : EnterHistory(s) /\ UNCHANGED <<ingestVars, startVars, appVars, db>>
    \/ \E s \in Sessions, c \in {<< >>} \cup {<<k>> : k \in Tokens} : ModelChunk(s, c) /\ UNCHANGED <<ingestVars, startVars, appVars, db>>
    \/ \E s \in Sessions, e \in ExceptionClasses :
          ModelFail(s, e) /\ UNCHANGED <<ingestVars, startVars, appVars, db>>
    \/ \E s \in Sessions : ExitHistory(s) /\ UNCHANGED <<ingestVars, startVars, appVars, db>>
    \/ \E s \in Sessions, o \in {"ok"} \cup ExceptionClasses, r \in Responses :
          Invoke(s, o, r) /\ UNCHANGED <<ingestVars, startVars, appVars, db>>
    \/ \E s \in Sessions : ClearSessionHistory(s) /\ UNCHANGED <<ingestVars, startVars, appVars, db>>
    \/ \E s \in Sessions : GetHistory(s) /\ UNCHANGED <<ingestVars, startVars, appVars, db>>
    \/ \E m \in Models : ChangeLlmType(m) /\ UNCHANGED <<ingestVars, startVars, appVars, db>>

Spec == Init /\ [][Next]_vars

\* Ingestion on its own: index_pdf calls against the index and the disk.
NextIngest ==
    \E input \in Inputs, fault \in Faults, removeFails \in BOOLEAN :
        IndexPdf(input, fault, removeFails) /\ UNCHANGED <<chatVars, startVars, appVars, db>>

SpecIngest == Init /\ [][NextIngest]_vars

\* Start-up: the configuration is read, the pipeline is constructed, and a
\* pipeline that exists ingests documents.
InitStartup ==
    /\ InitChat /\ InitIngest /\ InitNoApp /\ InitDb
    /\ config \in ConfigValues
    /\ pipeline = Unbuilt

NextStartup ==
    \/ Construct
    \/ /\ pipeline.state = "ready"
       /\ NextIngest

SpecStartup == InitStartup /\ [][NextStartup]_vars

\* A browser session opens one of the two pages; no chatbot exists yet.
InitApp ==
    /\ InitChat /\ chainStreams
    /\ InitIngest /\ InitBuilt /\ InitDb
    /\ app \in Apps
    /\ widgets = NoWidgets(app)
    /\ session_state = NoState
    /\ processed = << >>

NextApp ==
    \/ \E e \in ChatAppEvents : ChatAppRun(e)
    \/ \E e \in InterfaceEvents : ChatbotInterface(e)

SpecApp == InitApp /\ [][NextApp]_vars

\* The students table and the object that opens it.
InitDatabase == InitChat /\ chainStreams /\ InitIngest /\ InitBuilt /\ InitNoApp /\ InitDb

NextDb ==
    \/ \E f \in DbFaults : CreateTable(f)
    \/ \E st \in Students, f \in DbFaults : InsertStudent(st, f)
    \/ \E i \in StudentIds, n \in NewNames, a \in NewAges, f \in DbFaults :
          UpdateStudent(i, n, a, f)
    \/ \E i \in StudentIds, f \in DbFaults : DeleteStudent(i, f)
    \/ \E i \in StudentIds, f \in DbFaults : GetStudent(i, f)
    \/ \E t \in {"", "ann", "A"}, f \in DbFaults : SearchStudents(t, f)
    \/ \E f \in DbFaults : FetchAllStudents(f)

SpecDb == InitDatabase /\ [][NextDb]_vars


\* ------------------------------------------------------------ properties
Failed == {"RetrievalFailed", "GenerationFailed"}
Ended  == {"RetrievalFailed", "GenerationFailed", "Completed"}

\* The messages that a sequence of completed turns leaves in a history.
RECURSIVE Expected(_)
Expected(cs) ==
    IF cs = << >> THEN << >>
    ELSE <<HumanMessage(<<Head(cs).question>>), AIMessage(Concat(Head(cs).frags))>>
             \o Expected(Tail(cs))

\* C1: the history of a session holds, for the turns completed on it since
\* its last clear and in call order, the question of each turn followed by
\* the concatenation of the fragments that turn yielded: 2N messages for N
\* turns.
C1_HistoryIsCompletedTurns ==
    \A s \in Sessions :
        /\ Messages(s) = Expected(calls[s])
        /\ Len(Messages(s)) = 2 * Len(calls[s])

C1_Witness ==
    \E s \in Sessions :
        /\ Len(calls[s]) = 2
        /\ \E i \in 1..2 : Len(calls[s][i].frags) = 2

\* A step taken by the turn of s itself.
StepOfTurn(s) == turn[s].pc \in InFlight /\ turn'[s] # turn[s]

\* C2: no step of a turn other than the one that completes it changes the
\* message sequence of its session, so a turn that ends in a retrieval or a
\* generation failure, also after fragments were yielded, leaves it as it was.
C2_FailedTurnLeavesHistory ==
    [][\A s \in Sessions :
          (StepOfTurn(s) /\ turn'[s].pc # "Completed")
              => Messages(s)' = Messages(s)]_vars

C2_Witness ==
    \E s \in Sessions :
        /\ turn[s].pc = "GenerationFailed"
        /\ Len(turn[s].yielded) >= 2
        /\ Messages(s) # << >>

\* C3: a turn that starts generating is answered by the model that
\* change_llm_type selected last, the one get_llm_type reports.
C3_AnswerUsesSelectedModel ==
    [][\A s \in Sessions :
          (turn[s].pc = "ContextReady" /\ turn'[s].pc # "ContextReady")
              => turn'[s].usedModel = llm]_vars

\* C4: a switch of the model changes no session's entry and no message, and
\* a turn that starts generating loads the object the dict holds for its
\* session, with every message recorded in it.
C4_SwitchKeepsHistory ==
    [][/\ llm' # llm => (history' = history /\ objs' = objs)
       /\ \A s \in Sessions :
             (turn[s].pc = "ContextReady" /\ turn'[s].pc = "Generating")
                 => /\ turn'[s].hist = history'[s]
                    /\ objs'[turn'[s].hist] = Messages(s)]_vars

C4_Witness ==
    /\ llm # DefaultModel
    /\ \E s \in Sessions :
          /\ turn[s].pc = "Generating"
          /\ Len(objs[turn[s].hist]) = 2

\* C5: once index_pdf has returned, none of the temporary files the call
\* created is on disk (calls in which os.remove itself fails set aside).
C5_NoTempFileLeft ==
    (ingest.called /\ ~ingest.cleanupFailed)
        => ingest.created \cap tmpFiles = {}

\* C6: no turn ends by raising to its consumer.
C6_StreamNeverRaises == \A s \in Sessions : turn[s].pc # "Raised"

C6_Witness ==
    \E s, r \in Sessions :
        /\ turn[s].pc = "RetrievalFailed"
        /\ turn[r].pc = "GenerationFailed"

C8_AllOrNothing ==
    [][/\ \/ index' = index
          \/ ingest'.error = "none" /\ index' = index \o ingest'.chunks
       /\ ingest'.error # "none" => index' = index]_vars

C8_Witness ==
    /\ ingest.error # "none"
    /\ Len(ingest.chunks) = 2
    /\ index # << >>

\* C9: index_pdf returns the number of chunks ingested when it succeeds and
\* an error when it fails.
C9_ResultTellsOutcome ==
    ingest.called =>
        ingest.ret = IF ingest.error = "none"
                     THEN [kind |-> "count", count |-> Len(ingest.chunks)]
                     ELSE [kind |-> "IngestError", count |-> 0]

\* C10 as stated: every turn that has ended yielded at least one fragment.
C10_AlwaysOneFragment ==
    \A s \in Sessions : turn[s].pc \in Ended => Len(turn[s].yielded) >= 1

\* C10 as amended: a turn that has ended yielded at least one fragment,
\* except a turn completed over a streaming chain whose chunks were all
\* empty, which yielded none.
C10_OneFragmentUnlessAllEmpty ==
    \A s \in Sessions :
        turn[s].pc \in Ended =>
            IF turn[s].pc = "Completed" /\ chainStreams /\ turn[s].out = << >>
            THEN turn[s].yielded = << >>
            ELSE Len(turn[s].yielded) >= 1

C10_Witness ==
    \E s \in Sessions :
        /\ turn[s].pc = "Completed"
        /\ chainStreams
        /\ turn[s].nchunks = 2
        /\ Len(turn[s].yielded) = 1

\* The fragment frag is among the fragments yielded.
Holds(yielded, frag) == \E i \in 1..Len(yielded) : yielded[i] = frag

\* C11: a turn whose retriever call failed has yielded the retrieval error
\* message as its one and only fragment and has ended; it never loaded a
\* history, never invoked the chain and never received a chunk.
C11_RetrievalErrorIsOnlyFragment ==
    \A s \in Sessions :
        /\ Holds(turn[s].yielded, ErrRetrieving) =>
              /\ turn[s].pc = "RetrievalFailed"
              /\ turn[s].yielded = <<ErrRetrieving>>
        /\ turn[s].pc = "RetrievalFailed" =>
              /\ turn[s].yielded = <<ErrRetrieving>>
              /\ turn[s].usedModel = ""
              /\ turn[s].hist = 0
              /\ turn[s].nchunks = 0
              /\ turn[s].out = << >>

C11_Witness ==
    \E s, r \in Sessions :
        /\ turn[s].pc = "RetrievalFailed"
        /\ turn[r].pc = "Completed"
        /\ Messages(r) # << >>

\* C12 as stated: a turn that ended in a generation failure yielded the
\* error message and nothing else.
C12_ErrorIsOnlyFragment ==
    \A s \in Sessions :
        turn[s].pc = "GenerationFailed" => turn[s].yielded = <<ErrGenerating>>

\* C12 as amended: a turn that ended in a generation failure yielded the
\* generation error message exactly once, as its last fragment, after the
\* non-empty chunks the chain delivered before it failed; the message is the
\* only fragment exactly when no non-empty chunk was delivered.  No turn in
\* another state has yielded that message.
C12_ErrorIsLastFragment ==
    \A s \in Sessions :
        LET y == turn[s].yielded
            n == Len(y)
        IN /\ turn[s].pc = "GenerationFailed" =>
                /\ n >= 1
                /\ y[n] = ErrGenerating
                /\ \A i \in 1..(n - 1) :
                       y[i] \notin {<< >>, ErrGenerating, ErrRetrieving}
                /\ Concat(SubSeq(y, 1, n - 1)) = turn[s].out
                /\ (n = 1) = (turn[s].out = << >>)
           /\ Holds(y, ErrGenerating) => turn[s].pc = "GenerationFailed"

C12_Witness ==
    \E s \in Sessions :
        /\ turn[s].pc = "GenerationFailed"
        /\ Len(turn[s].yielded) = 3
        /\ turn[s].nchunks = 2

\* C13: clear_session_history never raises; on a session without history it
\* leaves the dict as it is; a second clear changes nothing the first one
\* left; and after a clear the session has no entry, so that the next read
\* of its history returns the empty sequence.
C13_ClearIsIdempotent ==
    [][\A s \in Sessions :
          LET once  == clear_session_history(history, s)
              twice == clear_session_history(once.history, s)
          IN /\ ~once.raised /\ ~twice.raised
             /\ once.history[s] = 0
             /\ twice.history = once.history
             /\ history[s] = 0 => once.history = history
             /\ ClearSessionHistory(s) =>
                   /\ history' = once.history
                   /\ Messages(s)' = << >>
                   /\ getHistory(s)' = << >>]_vars

C13_Witness ==
    \E s \in Sessions :
        /\ turn[s].pc = "Completed"
        /\ history[s] = 0
        /\ calls[s] = << >>

\* A step of an operation on session a: a step of its turn, a clear of its
\* history or a read of its history.
OperationOn(a) ==
    turn'[a] # turn[a] \/ ClearSessionHistory(a) \/ GetHistory(a)

\* C14: however the operations on different sessions interleave, a step of an
\* operation on one session changes neither the entry nor the messages of
\* another, and every session's history holds exactly the turns completed on
\* it since its last clear.
C14_SessionsAreIsolated ==
    [][/\ \A a, b \in Sessions :
             (a # b /\ OperationOn(a)) =>
                 /\ history'[b] = history[b]
                 /\ Messages(b)' = Messages(b)
                 /\ (history[b] # 0 => objs'[history[b]] = objs[history[b]])
       /\ \A s \in Sessions : Messages(s)' = Expected(calls'[s])]_vars

C14_Witness ==
    \E a, b \in Sessions :
        /\ a # b
        /\ turn[b].pc = "Generating" /\ turn[b].question = 1
        /\ turn[b].nchunks >= 1
        /\ turn[a].pc = "Completed" /\ turn[a].question = 2
        /\ Len(Messages(a)) = 2

\* s1 is a prefix of s2.
IsPrefix(s1, s2) == Len(s1) <= Len(s2) /\ SubSeq(s2, 1, Len(s1)) = s1

\* C16: get_session_history returns the handle the dict holds for the session
\* and leaves the dict alone, or, for a session without entry, stores and
\* returns a new empty history and touches no other entry; and a step that
\* is not a clear of a session keeps that session's handle and only ever
\* extends its messages.
C16_HandleStableUntilClear ==
    [][\A s \in Sessions :
          LET g == get_session_history(s) IN
            /\ g.handle # 0 /\ g.history[s] = g.handle
            /\ history[s] # 0 => (g.handle = history[s] /\ g.history = history)
            /\ history[s] = 0 =>
                  /\ objs[g.handle] = << >>
                  /\ \A r \in Sessions \ {s} : g.history[r] = history[r]
            /\ (history[s] # 0 /\ ~ClearSessionHistory(s)) =>
                  /\ history'[s] = history[s]
                  /\ IsPrefix(Messages(s), Messages(s)')]_vars

C16_Witness ==
    \E s \in Sessions :
        /\ Len(Messages(s)) = 2
        /\ turn[s].pc \in Failed
        /\ llm # DefaultModel

\* C17: a read of a session's history returns the messages of the turns
\* completed on it since its last clear, oldest first, the empty sequence
\* for a session without entry; the read changes no message of any session.
C17_ReadReturnsMessagesInOrder ==
    [][\A s \in Sessions :
          /\ getHistory(s) = Expected(calls[s])
          /\ history[s] = 0 => getHistory(s) = << >>
          /\ GetHistory(s) =>
                /\ objs' = objs
                /\ \A r \in Sessions : Messages(r)' = Messages(r)]_vars

C17_Witness ==
    \E s, r \in Sessions :
        /\ turn[s].pc = "none" /\ history[s] # 0
        /\ Len(Messages(r)) = 4

C19_UnknownBackendFailsAtConstruction ==
    /\ pipeline.state \in {"unbuilt", "ready", "ValueError"}
    /\ pipeline.state = "ready" =>
          /\ VectorStoreType(config) \in AvailableVectorStores
          /\ pipeline.vector_store = "Chroma"
    /\ pipeline.state = "ValueError" =>
          VectorStoreType(config) \notin AvailableVectorStores
    /\ VectorStoreType(config) \notin AvailableVectorStores =>
          /\ pipeline.vector_store = "none"
          /\ ~ingest.called /\ nIngests = 0 /\ index = << >>

C19_Witness ==
    /\ config = "FAISS"
    /\ pipeline.state = "ValueError"

\* C21: the chunks of an ingested document come from the fixed-window
\* splitter with chunk_size 500 and chunk_overlap 100: none is longer than
\* 500 characters and each one after the first begins at most 400
\* characters after the one before it.
C21_FixedWindowChunks ==
    (ingest.called /\ ingest.segments >= 1) =>
        /\ SplitterUsed = "fixed-window"
        /\ \A i \in 1..Len(ingest.chunks) :
              /\ Chars(ingest.chunks[i].text) <= 500
              /\ i > 1 =>
                    ChunkStart(ingest.chunks, i)
                        - ChunkStart(ingest.chunks, i - 1) <= 400

\* The steps the state machine of a turn allows from state a to state b.
TurnStep(a, b) ==
    \/ a \notin InFlight /\ b = "Idle"
    \/ a = "Idle" /\ b \in {"ContextReady", "RetrievalFailed"}
    \/ a = "ContextReady" /\ b \in {"Generating", "Completed", "GenerationFailed"}
    \/ a = "Generating" /\ b \in {"Generating", "Completed", "GenerationFailed"}

\* C22: a turn moves only along Idle -> {RetrievalFailed | ContextReady} ->
\* Generating -> {GenerationFailed | Completed}; nothing is yielded and the
\* chain is not invoked before the retriever has returned; messages are
\* added to a history only by the step that completes a turn; and a turn in
\* a terminal state takes no further step (the next step of its session is
\* a new call of stream, which starts a new turn from scratch).
C22_TurnStateMachine ==
    [][\A s \in Sessions :
          /\ turn'[s] # turn[s] => TurnStep(turn[s].pc, turn'[s].pc)
          /\ turn'[s].pc \in {"none", "Idle", "ContextReady", "RetrievalFailed"}
                => turn'[s].usedModel = "" /\ turn'[s].nchunks = 0
          /\ turn'[s].pc \in {"Idle", "ContextReady"} => turn'[s].yielded = << >>
          /\ (turn[s].pc \in Terminal /\ turn'[s] # turn[s]) =>
                turn'[s] = [NoTurn EXCEPT !.pc = "Idle",
                                          !.question = turn'[s].question]
          /\ Len(Messages(s)') > Len(Messages(s)) =>
                /\ turn[s].pc \in {"ContextReady", "Generating"}
                /\ turn'[s].pc = "Completed"
                /\ \A r \in Sessions \ {s} : turn'[r] = turn[r]
          /\ turn'[s] = turn[s] =>
                \A i \in Slots : Len(objs'[i]) > Len(objs[i]) =>
                    i \notin {history[s], turn[s].hist}]_vars

C22_Witness ==
    \E s \in Sessions :
        /\ turn[s].pc = "Completed"
        /\ turn[s].question = 2
        /\ Len(turn[s].yielded) = 2
        /\ Len(Messages(s)) = 4

\* The source_file the claim expects for an input: the original name of an
\* upload, the name of the file a path leads to, a generated name for bytes.
ExpectedSourceFile(input) ==
    IF input.kind \in {"upload", "path"} THEN input.name ELSE "tmp-generated.pdf"

\* C23: the records an index_pdf call adds to the index are the tagged chunks
\* of the call, each with document_type "pdf" and with the source_file that
\* belongs to the kind of input, and the text of the chunk unchanged.
C23_ChunksAreTagged ==
    [][\A input \in Inputs, fault \in Faults, removeFails \in BOOLEAN :
          IndexPdf(input, fault, removeFails) =>
              /\ \A i \in 1..Len(index) : index'[i] = index[i]
              /\ \A i \in (Len(index) + 1)..Len(index') :
                    /\ index'[i] = ingest'.chunks[i - Len(index)]
                    /\ index'[i].document_type = "pdf"
                    /\ index'[i].source_file = ExpectedSourceFile(input)
                    /\ index'[i].text = Segments(DocOf(input))[i - Len(index)]]_vars

C23_Witness ==
    /\ ingest.kind = "bytes"
    /\ Len(index) >= 3
    /\ \E i, j, k \in 1..Len(index) :
          /\ index[i].source_file = "report.pdf"
          /\ index[j].source_file = "tmp-generated.pdf"
          /\ index[k].document_type = "pdf"

\* C24: over a chain without stream, generation is one synchronous step: the
\* turn is never seen generating, and the step that completes it yields
\* exactly one fragment, the full response, and appends the question and
\* that response to the history of the session, as a streamed turn does.
C24_FallbackSameContract ==
    [][\A s \in Sessions :
          (~chainStreams /\ turn'[s] # turn[s]) =>
              /\ turn'[s].pc # "Generating"
              /\ turn'[s].pc = "Completed" =>
                    /\ turn[s].pc = "ContextReady"
                    /\ Len(turn'[s].yielded) = 1
                    /\ turn'[s].yielded[1] = turn'[s].out
                    /\ Concat(turn'[s].yielded) = turn'[s].out
                    /\ Messages(s)' = Messages(s) \o
                          <<HumanMessage(<<turn[s].question>>),
                            AIMessage(turn'[s].out)>>]_vars

C24_Witness ==
    /\ ~chainStreams
    /\ \E s \in Sessions :
          /\ turn[s].pc = "Completed"
          /\ Len(Messages(s)) = 4
          /\ turn[s].yielded = <<turn[s].out>>
          /\ turn[s].out # << >>

\* C25: the step that completes a turn of session s leaves the question and
\* the answer of that turn as the last two messages of the history the dict
\* holds for s, also when the session was cleared while the turn generated.
C25_CompletedTurnIsReachable ==
    [][\A s \in Sessions :
          (turn[s].pc \in InFlight /\ turn'[s].pc = "Completed") =>
              LET msgs == Messages(s)' IN
                /\ Len(msgs) >= 2
                /\ msgs[Len(msgs) - 1] = HumanMessage(<<turn[s].question>>)
                /\ msgs[Len(msgs)] = AIMessage(turn'[s].out)]_vars

\* C26: an index_pdf call given a path leaves every file of the user on disk,
\* the one at the path included, whether the call succeeds or fails and
\* whatever fails; a call given anything else leaves them too, and no call
\* removes a temporary file other than the ones it created itself.
C26_PathInputIsKept ==
    [][\A input \in Inputs, fault \in Faults, removeFails \in BOOLEAN :
          IndexPdf(input, fault, removeFails) =>
              /\ disk' = disk
              /\ tmpFiles \subseteq tmpFiles'
              /\ input.kind = "path" =>
                    /\ ingest'.created = {}
                    /\ tmpFiles' = tmpFiles
                    /\ (input.name \in disk) = (input.name \in disk')]_vars

C26_Witness ==
    /\ ingest.kind = "path"
    /\ ingest.error # "none"
    /\ disk = UserFiles
    /\ \E i \in 1..Len(index) : index[i].source_file = "tmp_notes.pdf"

\* C27: a run of a page in which the model selector shows another model
\* than in the run before, a RAG chatbot being in use before and after,
\* leaves the messages of every session and thread as they were.
C27_ModelSelectorKeepsConversation ==
    [][(/\ session_state.chatbot = "RAG"
        /\ session_state'.chatbot = "RAG"
        /\ widgets'.model # widgets.model)
          => \A s \in Sessions : Messages(s)' = Messages(s)]_vars

\* C28: a run of a page whose uploader still holds the file it held in the
\* run before, that file having been handed to process_pdf already, does
\* not hand it to process_pdf again.
C28_SelectedPdfIngestedOnce ==
    [][(/\ widgets.upload # "none"
        /\ widgets'.upload = widgets.upload
        /\ Contains(processed, widgets.upload))
          => processed' = processed]_vars

\* C29: st.session_state.session_ids holds no id twice and no empty id.
C29_SessionIdsDistinct ==
    LET ids == session_state.session_ids IN
      /\ \A i, j \in 1..Len(ids) : i # j => ids[i] # ids[j]
      /\ \A i \in 1..Len(ids) : ids[i] # << >>

\* C30: between two operations of the StudentDatabase the connection is
\* closed, however the operation before ended.
C30_ConnectionClosed == db.connection = "None"

====
